---- MODULE Spec2Model ----
(***************************************************************************)
(* Live Reaction System: the backend hub (backend/app/main.py as recorded  *)
(* in documents/implementation-log.md and the backend README) and the      *)
(* host-driven video relay the frontend talks to.                          *)
(*                                                                         *)
(* Time is the server clock in milliseconds.  Ratios and densities are     *)
(* kept as exact fractions [num, den]; a comparison  x >= 0.35  is the     *)
(* integer comparison  100 * num >= 35 * den .                             *)
(***************************************************************************)
EXTENDS Integers, Sequences, FiniteSets, TLC

(***************************************************************************)
(* Bounds of the model                                                     *)
(***************************************************************************)
MaxConns == 2        \* websocket connections accepted in one run
MaxUsers == 2        \* distinct userIds the clients use
MaxFrames == 4       \* frames the server receives in one run
MaxTime == 3000      \* the clock stops here
MaxActive == 2       \* active users in the inputs of the ladder check
MaxCount == 2        \* largest state count in the inputs of the ladder check
MaxEvents == 2       \* largest event count in the inputs of the ladder check
MaxSockets == 3      \* WebSockets one browser tab opens in one run

(***************************************************************************)
(* Program constants                                                       *)
(***************************************************************************)
maxlen == 3                  \* deque(maxlen=3)
ACTIVE_WINDOW_MS == 3000     \* (now - samples[-1].timestamp) <= 3000
SLEEP_MS == 1000             \* asyncio.sleep(1)
WINDOW_SECONDS == 3          \* len(active_users) * 3
durationMs == 2000
SEEK_THRESHOLD == 10         \* timeDiff > 1.0, in tenths of a second
MAX_RECONNECT_ATTEMPTS == 5
RECONNECT_DELAY == 3000       \* setTimeout(() => connect(), RECONNECT_DELAY)
DETECT_INTERVAL_MS == 100     \* setInterval(detect, 100)
RESET_INTERVAL_MS == 1000     \* setInterval(reset, 1000)
SEND_INTERVAL_MS == 1000      \* setInterval(send, 1000)
HISTORY_MAX == 8              \* headYHistory.current.length > 8: shift()
CONCENTRATING_FRAMES == 10    \* headYHistory.current.length < 10, slice(-10)
NOD_WARMUP == 5               \* headYHistory.current.length < 5: return
DOWN_MOVEMENT_THRESHOLD == 8  \* 0.008, in thousandths of the frame height
HEAD_MOVEMENT_THRESHOLD == 5  \* 0.005, in thousandths of the frame height
TIMEOUT_MS == 1500            \* down for more than 1.5 s: neutral
NOD_GAP_MS == 300             \* timeSinceLastNod > 300

None == 0
Users == 1..MaxUsers
Conns == 1..MaxConns

StateKeys == {"isSmiling", "isSurprised", "isConcentrating", "isHandUp"}
EventKeys == {"nod", "shakeHead", "swayVertical", "swayHorizontal", "cheer", "clap"}

(***************************************************************************)
(* The priority ladder of the aggregation engine: rank k is tried before   *)
(* rank k+1.  th is the threshold in hundredths.                           *)
(***************************************************************************)
Ladder ==
  << [kind |-> "state", key |-> "isHandUp",        th |-> 30, effectType |-> "cheer"],
     [kind |-> "state", key |-> "isSurprised",     th |-> 30, effectType |-> "excitement"],
     [kind |-> "event", key |-> "clap",            th |-> 15, effectType |-> "clapping_icons"],
     [kind |-> "event", key |-> "swayVertical",    th |-> 20, effectType |-> "bounce"],
     [kind |-> "event", key |-> "shakeHead",       th |-> 20, effectType |-> "shimmer"],
     [kind |-> "event", key |-> "swayHorizontal",  th |-> 20, effectType |-> "groove"],
     [kind |-> "event", key |-> "cheer",           th |-> 15, effectType |-> "wave"],
     [kind |-> "event", key |-> "nod",             th |-> 30, effectType |-> "wave"],
     [kind |-> "state", key |-> "isSmiling",       th |-> 35, effectType |-> "sparkle"],
     [kind |-> "state", key |-> "isConcentrating", th |-> 40, effectType |-> "focus"] >>

\* x >= th/100 for the fraction x
AtLeast(x, th) == 100 * x.num >= th * x.den

\* the predicate of rank k on the tick's ratio_state and density_event
RankHolds(k, ratio_state, density_event) ==
  IF Ladder[k].kind = "state"
    THEN AtLeast(ratio_state[Ladder[k].key], Ladder[k].th)
    ELSE AtLeast(density_event[Ladder[k].key], Ladder[k].th)

\* a bug: every rank whose predicate holds fires (if ... if ... instead of
\* if ... elif ...)
RECURSIVE LadderFromAll(_, _, _)
LadderFromAll(k, ratio_state, density_event) ==
  IF k > Len(Ladder) THEN << >>
  ELSE IF RankHolds(k, ratio_state, density_event)
    THEN <<k>> \o LadderFromAll(k + 1, ratio_state, density_event)
    ELSE LadderFromAll(k + 1, ratio_state, density_event)

\* a bug: the ladder is walked bottom-up, the last rank that holds wins
RECURSIVE LadderFromLast(_, _, _)
LadderFromLast(k, ratio_state, density_event) ==
  LET rest == LadderFromLast(k + 1, ratio_state, density_event) IN
  IF k > Len(Ladder) THEN << >>
  ELSE IF rest # << >> THEN rest
  ELSE IF RankHolds(k, ratio_state, density_event) THEN <<k>>
  ELSE << >>

\* if / elif chain from rank k on: the first rank whose predicate holds
RECURSIVE LadderFrom(_, _, _)
LadderFrom(k, ratio_state, density_event) ==
  IF k > Len(Ladder) THEN << >>
  ELSE IF RankHolds(k, ratio_state, density_event) THEN <<k>>
  ELSE LadderFrom(k + 1, ratio_state, density_event)

\* the ranks that fire in one tick, as a sequence (empty: return None)
determine_effect(ratio_state, density_event) ==
  LadderFrom(1, ratio_state, density_event)

\* min(1.0, x) for the fraction x
Min1(x) == IF x.num > x.den THEN [num |-> 1, den |-> 1] ELSE x

\* x / (p/10) for the fraction x
DivideByTenths(x, p) == [num |-> 10 * x.num, den |-> p * x.den]

\* the 'intensity' of the effect of rank k: the ratio or the density itself
\* (excitement, cheer, sparkle, focus, bounce), density / 0.5 for the nod
\* wave, min(1.0, density / 0.8) for clapping_icons and the cheer wave; the
\* shimmer and groove ranks are clamped
intensity(k, ratio_state, density_event) ==
  LET key == Ladder[k].key IN
  IF Ladder[k].kind = "state" THEN ratio_state[key]
  ELSE IF key = "nod" THEN DivideByTenths(density_event[key], 5)
  ELSE IF key \in {"clap", "cheer"} THEN Min1(DivideByTenths(density_event[key], 8))
  ELSE IF key \in {"shakeHead", "swayHorizontal"} THEN Min1(density_event[key])
  ELSE density_event[key]

\* the effect frame of rank k decided at server time t
EffectFrame(k, t) ==
  [type |-> "effect", effectType |-> Ladder[k].effectType,
   durationMs |-> durationMs, timestamp |-> t]

(***************************************************************************)
(* State                                                                   *)
(***************************************************************************)
VARIABLES
  now,                 \* int(time.time() * 1000)
  conn,                \* conn[c]: one websocket and its websocket_endpoint task
  inbox,               \* inbox[c]: the frames written to websocket c, oldest first
  active_connections,  \* dict user_id -> websocket, as its entries in insertion order
  user_data,           \* dict user_id -> deque of ReactionSample (<< >>: no key)
  agg,                 \* the aggregation_loop task
  effects_log,         \* rows of effects_log
  reactions_log,       \* number of rows of reactions_log
  frames,              \* frames received so far
  last_arrival,        \* last_arrival[u]: when the newest frame of user u came in
  broadcasts,          \* the effects handed to broadcast, oldest first
  effect_log_errors,   \* number of log_effect calls that raised
  reaction_log_errors, \* number of log_reaction calls that raised
  users,               \* users[u]: number of rows of the users table with id u
  client,              \* client[c]: the React state of the browser tab behind websocket c
  hook,                \* hook[i]: useWebSocket of component i of one tab, with its WebSockets
  viewer,              \* the event counters and the two 1 s timers of one ViewingScreen
  det,                 \* the refs of useReactionDetection: head history and nod detector
  renderer,            \* the refs of useEffectRenderer and what the last frame drew
  last,                \* the typed frame handled in the step into this state
  ladderIn,            \* input of the ladder check
  ladderOut            \* its result

vars == << now, conn, inbox, active_connections, user_data, agg, effects_log,
           reactions_log, frames, last_arrival, broadcasts, effect_log_errors,
           reaction_log_errors, users, client, hook, viewer,
           det, renderer,
           last, ladderIn, ladderOut >>

serverVars == << conn, inbox, active_connections, user_data, agg, effects_log,
                 reactions_log >>

(***************************************************************************)
(* The dict active_connections.  CPython keeps the entries in insertion    *)
(* order; a deleted key leaves a hole that an iterator skips, an assigned  *)
(* existing key keeps its place, a new key goes to the end.                *)
(***************************************************************************)
Hole == [user |-> None, ws |-> None]

Used(d) == Cardinality({i \in DOMAIN d : d[i] # Hole})

Has(d, u) == \E i \in DOMAIN d : d[i].user = u

Lookup(d, u) == d[CHOOSE i \in DOMAIN d : d[i].user = u].ws

\* active_connections[user_id] = websocket
DictSet(d, u, c) ==
  IF Has(d, u)
    THEN [i \in DOMAIN d |-> IF d[i].user = u THEN [user |-> u, ws |-> c] ELSE d[i]]
    ELSE Append(d, [user |-> u, ws |-> c])

\* del active_connections[user_id]
DictDel(d, u) == [i \in DOMAIN d |-> IF d[i].user = u THEN Hole ELSE d[i]]

\* holes matter to a running iterator only
Compact(d) == SelectSeq(d, LAMBDA e : e # Hole)

Registered(d) == {d[i].ws : i \in {j \in DOMAIN d : d[j] # Hole}}

NewIter(d) == [pos |-> 1, used |-> Used(d), len |-> Used(d)]

\* one step of  for user_id, ws in active_connections.items()
IterNext(d, it) ==
  LET idx == {i \in DOMAIN d : i >= it.pos /\ d[i] # Hole} IN
  IF Used(d) # it.used THEN [kind |-> "error", i |-> 0]
  ELSE IF idx = {} THEN [kind |-> "stop", i |-> 0]
  ELSE IF it.len = 0 THEN [kind |-> "error", i |-> 0]
  ELSE [kind |-> "item", i |-> CHOOSE i \in idx : \A j \in idx : i <= j]

(***************************************************************************)
(* The store user_data                                                     *)
(***************************************************************************)
NoEvents == [e \in EventKeys |-> 0]

\* a bug: the deque grows without bound
dequeAppendUnbounded(w, sample) == Append(w, sample)

\* deque(maxlen=3).append(sample)
dequeAppend(w, sample) ==
  IF Len(w) = maxlen THEN Append(Tail(w), sample) ELSE Append(w, sample)

Last(w) == w[Len(w)]

\* if samples and (now - samples[-1].timestamp) <= 3000
active_users(ud, t) ==
  {u \in Users : ud[u] # << >> /\ (t - Last(ud[u]).timestamp) <= ACTIVE_WINDOW_MS}

RECURSIVE SumOver(_, _)
SumOver(S, f) ==
  IF S = {} THEN 0
  ELSE LET u == CHOOSE x \in S : TRUE IN f[u] + SumOver(S \ {u}, f)

RECURSIVE EventTotal(_, _, _)
EventTotal(w, key, i) ==
  IF i = 0 THEN 0 ELSE w[i].events[key] + EventTotal(w, key, i - 1)

\* true_count / len(active_users): true_count counts the samples of the
\* active users in which the state is true
ratio_state(ud, A) ==
  [key \in StateKeys |->
     [num |-> SumOver(A, [u \in Users |->
                 Cardinality({i \in DOMAIN ud[u] : key \in ud[u][i].states})]),
      den |-> Cardinality(A)]]

\* total_count / (len(active_users) * 3)
density_event(ud, A) ==
  [key \in EventKeys |->
     [num |-> SumOver(A, [u \in Users |-> EventTotal(ud[u], key, Len(ud[u]))]),
      den |-> Cardinality(A) * WINDOW_SECONDS]]

(***************************************************************************)
(* Clients.  A client is one browser tab: its userId, its isHost URL       *)
(* parameter and its clock (Date.now()), which need not agree with the     *)
(* server's: the clock of user 2 is one second behind.                     *)
(***************************************************************************)
ClientSkew(u) == IF u = 1 THEN 0 ELSE 0 - 1000

HandUp == [states |-> {"isSmiling", "isHandUp"}, events |-> NoEvents]

VideoTags == {"video_play", "video_pause", "video_seek"}
VideoTimes == {10, 42}          \* getCurrentTime() of the host, tenths of a second
PlayerTimes == {0, 31, 32}      \* getCurrentTime() of a participant

\* playerRef.current is null until onPlayerReady
NoPlayer == 0 - 1

Groups == {"experiment", "control1", "control2", "debug"}

FreeConn == [status |-> "free", owner |-> None, isHost |-> FALSE, user_id |-> None,
             sent |-> 0, group |-> "control2"]

\* the first frame of a socket: ws.send(JSON.stringify({ userId, experimentGroup }))
HandshakeMessage(c) ==
  [userId |-> conn[c].owner, timestamp |-> << >>, states |-> {}, events |-> NoEvents]

\* sendReactionData: { userId, timestamp: Date.now(), ...data }
ReactionMessage(c, p) ==
  [userId |-> conn[c].owner, timestamp |-> << now + ClientSkew(conn[c].owner) >>,
   states |-> p.states, events |-> p.events]

\* message.get('timestamp', int(time.time() * 1000))
MessageTimestamp(message) ==
  IF message.timestamp = << >> THEN now ELSE message.timestamp[1]

\* a bug: any connection that has shaken hands may drive the video
SenderIsHostAny(c) == conn[c].user_id # None

\* the connection's is_host flag, declared in the handshake frame
SenderIsHost(c) == conn[c].user_id # None /\ conn[c].isHost

Sleeping(t) ==
  [pc |-> "sleep", sleepStart |-> t, queue |-> << >>, it |-> NewIter(<< >>),
   cur |-> Hole, disconnected_users |-> << >>, start |-> {}, since |-> 0]

NoFrame == [op |-> "none", c |-> None]

VideoIds == {"XYZ"}

\* the userId getUserId() returns in the tab of the useWebSocket check
StoredUserId == "user-1"

Sockets == 1..MaxSockets

\* the two components of one tab that call useWebSocket with the tab's
\* userId: App, and the ViewingScreen it renders
Hooks == {"App", "ViewingScreen"}

NoTimer == 0 - 1

\* a socket slot: readyState, the userId its handlers closed over, the
\* frames sent on it, the ms left on the reconnect timer its onclose set
\* (NoTimer: none, fired or cleared), and late: whether it was opened by a
\* connect whose effect had been cleaned up before
NoSocket == [readyState |-> "none", userId |-> "", out |-> << >>,
             timer |-> NoTimer, late |-> FALSE]

\* useWebSocket before the first effects of its component: the refs wsRef
\* null, reconnectTimeoutRef null (else the socket whose onclose set the
\* timer), reconnectAttempts 0, the state error null.  userId is the
\* argument of the last render, connect the userId the connect callback of
\* that render has closed over, cleaned the connect callbacks whose effect
\* has been cleaned up.
FreshHookOf == [phase |-> "fresh", userId |-> "", connect |-> "", cleaned |-> {},
                wsRef |-> None, reconnectAttempts |-> 0,
                reconnectTimeoutRef |-> None, error |-> FALSE,
                ws |-> [s \in Sockets |-> NoSocket]]

FreshHook == [i \in Hooks |-> FreshHookOf]

\* the y of the nose tip in thousandths of the frame height, and the time
\* between two calls of updateReactions (the 100 ms loop skips calls while
\* the camera has no frame)
HeadYs == {500, 600}

Dts == {200, 1600}

\* averages of 5 to 8 values are kept as whole numbers of 840ths
AvgScale == 840

\* useReactionDetection at mount: the refs of the nod detector and the
\* isConcentrating of states; now is performance.now() at the last call.
\* browsDown, face, moved, counted and log describe the last call: its input,
\* whether it had a face, the direction deltaFromPrev exceeded the threshold
\* in, whether it counted a nod, and the transition it wrote to the console.
FreshDet == [headYHistory |-> << >>, prevHeadY |-> 0, lastNodTime |-> 0,
             downStateStartTime |-> 0, nodState |-> "neutral", now |-> 0,
             isConcentrating |-> FALSE, browsDown |-> FALSE, face |-> FALSE,
             moved |-> "none", counted |-> FALSE, log |-> ""]

\* the effect instructions a client is sent in the renderer check: two types
\* animate has a case for and one it has none for, lasting 1 s or 2 s
ArrivingEffects ==
  [effectType : {"sparkle", "wave", "confetti"}, durationMs : {1000, durationMs}]

FrameStep == 500

\* currentEffectRef.current === null, and a canvas that was only cleared
NoEffect == [effectType |-> "", durationMs |-> 0]

EmptyCanvas == [effect |-> NoEffect, receivedAt |-> 0, at |-> 0]

\* useEffectRenderer at mount: currentEffectRef null, effectStartTimeRef 0;
\* now is performance.now().  receivedAt is the time the hook's onmessage
\* got the effect of currentEffectRef; drawn is what the last call of
\* animate left on the canvas (EmptyCanvas after a bare clearRect), as the effect
\* with its receivedAt and the time of the frame; log is the last console
\* line of animate, wasDrawn whether a frame has drawn the current effect.
FreshRenderer == [currentEffectRef |-> NoEffect, effectStartTimeRef |-> 0, now |-> 0,
                  receivedAt |-> 0, drawn |-> EmptyCanvas, log |-> "", wasDrawn |-> FALSE]

\* ViewingScreen at mount: events all 0, eventsRef all 0, isPlaying false,
\* both intervals just set.  events stands for one counter (nod); fresh
\* counts the events detected since the last frame was sent, and sent holds
\* the last frame: the count it carried beside the value of fresh;
\* sinceReset is the time since the counters were last reset (or mounted).
FreshViewer == [isPlaying |-> FALSE, events |-> 0, eventsRef |-> 0,
                resetIn |-> RESET_INTERVAL_MS, sendIn |-> SEND_INTERVAL_MS,
                fresh |-> 0, sent |-> << >>, sinceReset |-> 0]

\* the states of the YouTube player: -1 unstarted, 0 ended, 1 playing,
\* 2 paused
UNSTARTED == 0 - 1
ENDED == 0
PLAYING == 1
PAUSED == 2

\* useState of App: currentScreen 'initial', videoId '', isReady false;
\* refs of ViewingScreen: playerRef null, sessionCreatedRef false.
\* syncSeen counts the time_sync_response frames the tab has handled, seeks
\* its seekTo calls; sessionSent lists the session frames it has sent;
\* resumed tells that playback was resumed after a pause.
FreeClient == [currentScreen |-> "initial", isReady |-> FALSE, videoId |-> "",
               playerTime |-> NoPlayer, syncSeen |-> 0, seeks |-> 0,
               playerState |-> UNSTARTED, sessionCreatedRef |-> FALSE,
               sessionSent |-> << >>, resumed |-> FALSE]

Init ==
  /\ now = 0
  /\ conn = [c \in Conns |-> FreeConn]
  /\ inbox = [c \in Conns |-> << >>]
  /\ active_connections = << >>
  /\ user_data = [u \in Users |-> << >>]
  /\ agg = Sleeping(0)
  /\ effects_log = << >>
  /\ reactions_log = 0
  /\ frames = 0
  /\ last_arrival = [u \in Users |-> 0]
  /\ broadcasts = << >>
  /\ effect_log_errors = 0
  /\ reaction_log_errors = 0
  /\ users = [u \in Users |-> 0]
  /\ client = [c \in Conns |-> FreeClient]
  /\ hook = FreshHook
  /\ viewer = FreshViewer
  /\ det = FreshDet
  /\ renderer = FreshRenderer
  /\ last = NoFrame
  /\ ladderIn = << >>
  /\ ladderOut = << >>

(***************************************************************************)
(* websocket_endpoint                                                      *)
(***************************************************************************)
\* await websocket.accept(); user_id = None
Accept(c, u, h, g) ==
  /\ conn[c].status = "free"
  /\ \A b \in Conns : b < c => conn[b].status # "free"
  /\ conn' = [conn EXCEPT ![c] = [status |-> "open", owner |-> u, isHost |-> h,
                                  user_id |-> None, sent |-> 0, group |-> g]]
  /\ last' = NoFrame
  /\ UNCHANGED << now, inbox, active_connections, user_data, agg, effects_log,
                  reactions_log, frames, last_arrival, broadcasts, effect_log_errors,
                  ladderIn, ladderOut,
                  reaction_log_errors, users, client, hook, viewer, det, renderer >>

\* a bug: the INSERT is not guarded by the SELECT
ensure_user_existsInsertOnly(rows, user_id, dbOk) ==
  IF dbOk THEN [rows EXCEPT ![user_id] = @ + 1] ELSE rows

\* ensure_user_exists: SELECT id FROM users WHERE id = ?; INSERT if
\* fetchone() is None.  The function has no await in it, so no other task
\* runs between the SELECT and the INSERT.
ensure_user_exists(rows, user_id, dbOk) ==
  IF dbOk /\ rows[user_id] = 0 THEN [rows EXCEPT ![user_id] = 1] ELSE rows

\* a bug: the row is written, the commit fails and the insert is retried
log_reactionTwice(rows, dbOk) == IF dbOk THEN rows + 2 ELSE rows

\* try: log_reaction(user_id, data) except Exception: print(...)
\* one row, or none when the write raises
log_reaction(rows, dbOk) == IF dbOk THEN rows + 1 ELSE rows

\* one pass of the receive loop for a frame without a type: register the
\* websocket under the frame's userId, append the sample, log the reaction
ReceiveSample(c, message, dbOk) ==
  LET u == message.userId
      sample == [timestamp |-> MessageTimestamp(message),
                 states |-> message.states, events |-> message.events]
  IN
  /\ conn[c].status = "open"
  /\ frames < MaxFrames
  /\ frames' = frames + 1
  /\ conn' = [conn EXCEPT ![c].user_id = u, ![c].sent = @ + 1]
  /\ active_connections' = DictSet(active_connections, u, c)
  /\ user_data' = [user_data EXCEPT ![u] = dequeAppend(@, sample)]
  /\ reactions_log' = log_reaction(reactions_log, dbOk)
  /\ reaction_log_errors' = IF dbOk THEN reaction_log_errors
                            ELSE reaction_log_errors + 1
  /\ last_arrival' = [last_arrival EXCEPT ![u] = now]
  /\ last' = NoFrame
  /\ users' = IF conn[c].user_id = None THEN ensure_user_exists(users, u, dbOk)
               ELSE users
  /\ UNCHANGED << now, inbox, agg, effects_log, broadcasts, effect_log_errors,
                  ladderIn, ladderOut, client, hook, viewer, det, renderer >>

ClientHandshake(c, dbOk) ==
  /\ conn[c].user_id = None
  /\ ReceiveSample(c, HandshakeMessage(c), dbOk)

ClientReaction(c, p, dbOk) ==
  /\ conn[c].user_id # None
  /\ ReceiveSample(c, ReactionMessage(c, p), dbOk)

\* the peer goes away; the endpoint task has not noticed yet
Break(c) ==
  /\ conn[c].status = "open"
  /\ conn' = [conn EXCEPT ![c].status = "broken"]
  /\ last' = NoFrame
  /\ UNCHANGED << now, inbox, active_connections, user_data, agg, effects_log,
                  reactions_log, frames, last_arrival, broadcasts, effect_log_errors,
                  ladderIn, ladderOut,
                  reaction_log_errors, users, client, hook, viewer, det, renderer >>

\* a bug: the window of the user survives the disconnect
DisconnectKeepsWindow(c) ==
  LET u == conn[c].user_id
      d == IF u # None /\ Has(active_connections, u)
             THEN DictDel(active_connections, u) ELSE active_connections
  IN
  /\ conn[c].status = "broken"
  /\ conn' = [conn EXCEPT ![c].status = "closed"]
  /\ active_connections' = IF agg.pc = "send" THEN d ELSE Compact(d)
  /\ last' = NoFrame
  /\ UNCHANGED << now, inbox, user_data, agg, effects_log, reactions_log, frames,
                  last_arrival, broadcasts, effect_log_errors,
                  ladderIn, ladderOut,
                  reaction_log_errors, users, client, hook, viewer, det, renderer >>

\* except WebSocketDisconnect: drop the registration and the window of user_id
Disconnect(c) ==
  LET u == conn[c].user_id
      d == IF u # None /\ Has(active_connections, u)
             THEN DictDel(active_connections, u) ELSE active_connections
  IN
  /\ conn[c].status = "broken"
  /\ conn' = [conn EXCEPT ![c].status = "closed"]
  /\ active_connections' = IF agg.pc = "send" THEN d ELSE Compact(d)
  /\ user_data' = IF u # None THEN [user_data EXCEPT ![u] = << >>] ELSE user_data
  /\ last' = NoFrame
  /\ UNCHANGED << now, inbox, agg, effects_log, reactions_log, frames,
                  last_arrival, broadcasts, effect_log_errors,
                  ladderIn, ladderOut,
                  reaction_log_errors, users, client, hook, viewer, det, renderer >>

\* a bug: the host's frame goes back to the host only
video_targetsEcho(c) == IF SenderIsHost(c) THEN {c} ELSE {}

\* who gets a transport frame sent on c: everyone registered when c is the
\* host, nobody otherwise
video_targets(c) ==
  IF SenderIsHost(c)
    THEN {b \in Registered(active_connections) : conn[b].status = "open"}
    ELSE {}

\* video_play / video_pause / video_seek: re-broadcast with the same tag and
\* fields when the sender is the host, ignored otherwise
VideoFrame(c, tag, t) ==
  LET frame == [type |-> tag, currentTime |-> t,
                timestamp |-> now + ClientSkew(conn[c].owner)]
      to == video_targets(c)
  IN
  /\ conn[c].status = "open"
  /\ conn[c].user_id # None
  /\ frames < MaxFrames
  /\ frames' = frames + 1
  /\ inbox' = [b \in Conns |-> IF b \in to THEN Append(inbox[b], frame) ELSE inbox[b]]
  /\ last' = [op |-> "video", c |-> c, frame |-> frame]
  /\ UNCHANGED << now, conn, active_connections, user_data, agg, effects_log,
                  reactions_log, last_arrival, broadcasts, effect_log_errors,
                  ladderIn, ladderOut,
                  reaction_log_errors, users, client, hook, viewer, det, renderer >>

\* the tab behind c is a participant of the experiment group
Participant(c) == conn[c].group = "experiment" /\ ~conn[c].isHost

\* the video_url_selected frames websocket b has delivered
UrlFrames(b) == SelectSeq(inbox[b], LAMBDA f : f.type = "video_url_selected")

\* App, useEffect on [experimentGroup, isHost]: a participant of the
\* experiment group leaves the initial screen for the waiting screen
AppMount(c) ==
  /\ conn[c].status = "open"
  /\ Participant(c)
  /\ client[c].currentScreen = "initial"
  /\ client' = [client EXCEPT ![c].currentScreen = "waiting"]
  /\ last' = NoFrame
  /\ UNCHANGED << now, conn, inbox, active_connections, user_data, agg, effects_log,
                  reactions_log, frames, last_arrival, broadcasts, effect_log_errors,
                  reaction_log_errors, users, ladderIn, ladderOut, hook, viewer, det, renderer >>

\* the ready button of the waiting screen: setIsReady(true); the effect on
\* [isReady, videoId, currentScreen] then moves on when videoId is set
ClickReady(c) ==
  /\ conn[c].status = "open"
  /\ client[c].currentScreen = "waiting"
  /\ ~client[c].isReady
  /\ client' = [client EXCEPT ![c].isReady = TRUE,
                              ![c].currentScreen =
                                 IF Participant(c) /\ client[c].videoId # ""
                                   THEN "viewing" ELSE @]
  /\ last' = NoFrame
  /\ UNCHANGED << now, conn, inbox, active_connections, user_data, agg, effects_log,
                  reactions_log, frames, last_arrival, broadcasts, effect_log_errors,
                  reaction_log_errors, users, ladderIn, ladderOut, hook, viewer, det, renderer >>

\* handleStartViewing on the initial screen: setVideoId, camera check, and
\* from the host of the experiment group sendVideoUrlSelected(newVideoId),
\* which the server hands to every registered connection
handleStartViewing(c, newVideoId) ==
  LET frame == [type |-> "video_url_selected", videoId |-> newVideoId]
      sends == conn[c].group = "experiment" /\ conn[c].isHost
      to == IF sends THEN video_targets(c) ELSE {}
  IN
  /\ conn[c].status = "open"
  /\ conn[c].user_id # None
  /\ client[c].currentScreen = "initial"
  /\ ~Participant(c)
  /\ frames < MaxFrames
  /\ frames' = IF sends THEN frames + 1 ELSE frames
  /\ client' = [client EXCEPT ![c].videoId = newVideoId,
                              ![c].currentScreen = "camera_check"]
  /\ inbox' = [b \in Conns |-> IF b \in to THEN Append(inbox[b], frame) ELSE inbox[b]]
  /\ last' = NoFrame
  /\ UNCHANGED << now, conn, active_connections, user_data, agg, effects_log,
                  reactions_log, last_arrival, broadcasts, effect_log_errors,
                  reaction_log_errors, users, ladderIn, ladderOut, hook, viewer, det, renderer >>

\* handleCameraReady
handleCameraReady(c) ==
  /\ conn[c].status = "open"
  /\ client[c].currentScreen = "camera_check"
  /\ client' = [client EXCEPT ![c].currentScreen = "viewing"]
  /\ last' = NoFrame
  /\ UNCHANGED << now, conn, inbox, active_connections, user_data, agg, effects_log,
                  reactions_log, frames, last_arrival, broadcasts, effect_log_errors,
                  reaction_log_errors, users, ladderIn, ladderOut, hook, viewer, det, renderer >>

\* App, useEffect on [videoUrlSelectedEvent, ..., isReady]: a participant
\* takes the videoId of the event and goes to viewing if it is ready
OnVideoUrlSelected(c) ==
  LET events == UrlFrames(c) IN
  /\ conn[c].status = "open"
  /\ Participant(c)
  /\ events # << >>
  /\ client[c].videoId # Last(events).videoId
  /\ client' = [client EXCEPT ![c].videoId = Last(events).videoId,
                              ![c].currentScreen =
                                 IF client[c].isReady THEN "viewing" ELSE @]
  /\ last' = NoFrame
  /\ UNCHANGED << now, conn, inbox, active_connections, user_data, agg, effects_log,
                  reactions_log, frames, last_arrival, broadcasts, effect_log_errors,
                  reaction_log_errors, users, ladderIn, ladderOut, hook, viewer, det, renderer >>

\* a bug: the request is offered to every registered connection
host_lookupAll(c) ==
  IF conn[c].user_id # None /\ ~conn[c].isHost
    THEN Registered(active_connections)
    ELSE {}

\* the connections a time_sync_request sent on c may be forwarded to: a
\* registered connection flagged is_host, when c is a participant
host_lookup(c) ==
  IF conn[c].user_id # None /\ ~conn[c].isHost
    THEN {b \in Registered(active_connections) : conn[b].isHost}
    ELSE {}

\* time_sync_request: forwarded to the host with the requester's id; dropped
\* when no host is registered or the sender is the host
TimeSyncRequest(c) ==
  LET frame == [type |-> "time_sync_request", requesterId |-> conn[c].user_id] IN
  /\ conn[c].status = "open"
  /\ conn[c].user_id # None
  /\ frames < MaxFrames
  /\ frames' = frames + 1
  /\ \/ host_lookup(c) = {} /\ inbox' = inbox
     \/ \E h \in host_lookup(c) :
          inbox' = [inbox EXCEPT ![h] = IF conn[h].status = "open"
                                          THEN Append(@, frame) ELSE @]
  /\ last' = [op |-> "time_sync_request", c |-> c, frame |-> frame]
  /\ UNCHANGED << now, conn, active_connections, user_data, agg, effects_log,
                  reactions_log, last_arrival, broadcasts, effect_log_errors,
                  ladderIn, ladderOut,
                  reaction_log_errors, users, client, hook, viewer, det, renderer >>

\* a bug: the answer goes to everybody
send_toAll(u) == {b \in Registered(active_connections) : conn[b].status = "open"}

\* Hub.send_to(user_id): the connection registered under user_id, if any
send_to(u) ==
  IF Has(active_connections, u) /\ conn[Lookup(active_connections, u)].status = "open"
    THEN {Lookup(active_connections, u)}
    ELSE {}

\* time_sync_response: when the sender is the host, currentTime goes to the
\* connection of requesterId
TimeSyncResponse(c, requesterId, t) ==
  LET to == IF SenderIsHost(c) THEN send_to(requesterId) ELSE {}
      frame == [type |-> "time_sync_response", currentTime |-> t]
  IN
  /\ conn[c].status = "open"
  /\ conn[c].user_id # None
  /\ frames < MaxFrames
  /\ frames' = frames + 1
  /\ inbox' = [b \in Conns |-> IF b \in to THEN Append(inbox[b], frame) ELSE inbox[b]]
  /\ last' = [op |-> "time_sync_response", c |-> c,
              frame |-> [type |-> "time_sync_response", requesterId |-> requesterId,
                         currentTime |-> t]]
  /\ UNCHANGED << now, conn, active_connections, user_data, agg, effects_log,
                  reactions_log, last_arrival, broadcasts, effect_log_errors,
                  ladderIn, ladderOut,
                  reaction_log_errors, users, client, hook, viewer, det, renderer >>

\* the time_sync_response frames websocket c has delivered
SyncResponses(c) == SelectSeq(inbox[c], LAMBDA f : f.type = "time_sync_response")

Abs(x) == IF x < 0 THEN 0 - x ELSE x

\* a bug: a difference of exactly one second is corrected too
needs_seekAtLeast(hostTime, myTime) == Abs(hostTime - myTime) >= SEEK_THRESHOLD

\* timeDiff = Math.abs(hostTime - myTime); if (timeDiff > 1.0)
needs_seek(hostTime, myTime) == Abs(hostTime - myTime) > SEEK_THRESHOLD

\* onPlayerReady of the ViewingScreen the App shows on its viewing screen:
\* playerRef.current = event.target
onPlayerReady(c) ==
  /\ conn[c].status = "open"
  /\ client[c].currentScreen = "viewing"
  /\ client[c].playerTime = NoPlayer
  /\ client' = [client EXCEPT ![c].playerTime = 0]
  /\ last' = NoFrame
  /\ UNCHANGED << now, conn, inbox, active_connections, user_data, agg, effects_log,
                  reactions_log, frames, last_arrival, broadcasts, effect_log_errors,
                  reaction_log_errors, users, ladderIn, ladderOut, hook, viewer, det, renderer >>

\* the video plays on: getCurrentTime() grows
PlayerProgress(c, t) ==
  /\ conn[c].status = "open"
  /\ client[c].playerTime # NoPlayer
  /\ t > client[c].playerTime
  /\ client' = [client EXCEPT ![c].playerTime = t]
  /\ last' = NoFrame
  /\ UNCHANGED << now, conn, inbox, active_connections, user_data, agg, effects_log,
                  reactions_log, frames, last_arrival, broadcasts, effect_log_errors,
                  reaction_log_errors, users, ladderIn, ladderOut, hook, viewer, det, renderer >>

\* ViewingScreen, useEffect on [timeSyncResponse, isHost]: return for the
\* host or without a player; else seekTo(hostTime) when the times differ by
\* more than a second
OnTimeSyncResponse(c) ==
  LET hostTime == SyncResponses(c)[client[c].syncSeen + 1].currentTime
      myTime == client[c].playerTime
      seek == /\ ~conn[c].isHost
              /\ myTime # NoPlayer
              /\ needs_seek(hostTime, myTime)
  IN
  /\ conn[c].status = "open"
  /\ client[c].syncSeen < Len(SyncResponses(c))
  /\ client' = [client EXCEPT ![c].syncSeen = @ + 1,
                              ![c].playerTime = IF seek THEN hostTime ELSE @,
                              ![c].seeks = IF seek THEN @ + 1 ELSE @]
  /\ last' = [op |-> "time_sync_check", c |-> c, hostTime |-> hostTime,
              myTime |-> myTime]
  /\ UNCHANGED << now, conn, inbox, active_connections, user_data, agg, effects_log,
                  reactions_log, frames, last_arrival, broadcasts, effect_log_errors,
                  reaction_log_errors, users, ladderIn, ladderOut, hook, viewer, det, renderer >>

\* a bug: the flag is not looked at, every start of playback opens a session
session_create_dueAlways(c, data) == data = PLAYING /\ client[c].videoId # ""

\* a variant: the first play sends no session_create
session_create_dueNever(c, data) == FALSE

\* event.data === 1 && !sessionCreatedRef.current && videoId
session_create_due(c, data) ==
  data = PLAYING /\ ~client[c].sessionCreatedRef /\ client[c].videoId # ""

\* the states the player can go to from state st
PlayerMoves(st) ==
  IF st = PLAYING THEN {PAUSED, ENDED} ELSE {PLAYING}

\* onPlayerStateChange: setIsPlaying; sendSessionCreate on the first play;
\* sendSessionCompleted when the video has ended; from the host of the
\* experiment group sendVideoEvent('video_play' | 'video_pause', currentTime),
\* which the server hands to every registered connection
onPlayerStateChange(c, data) ==
  LET create == session_create_due(c, data)
      session == IF create THEN << "session_create" >>
                 ELSE IF data = ENDED THEN << "session_completed" >> ELSE << >>
      sync == /\ conn[c].group = "experiment" /\ conn[c].isHost
              /\ data \in {PLAYING, PAUSED}
      frame == [type |-> IF data = PLAYING THEN "video_play" ELSE "video_pause",
                currentTime |-> client[c].playerTime,
                timestamp |-> now + ClientSkew(conn[c].owner)]
      to == IF sync THEN video_targets(c) ELSE {}
      n == Len(session) + (IF sync THEN 1 ELSE 0)
  IN
  /\ conn[c].status = "open"
  /\ conn[c].user_id # None
  /\ client[c].playerTime # NoPlayer
  /\ data \in PlayerMoves(client[c].playerState)
  /\ frames + n <= MaxFrames
  /\ frames' = frames + n
  /\ client' = [client EXCEPT ![c].playerState = data,
                              ![c].sessionCreatedRef = @ \/ create,
                              ![c].sessionSent = @ \o session,
                              ![c].resumed = @ \/ (data = PLAYING
                                                    /\ client[c].playerState = PAUSED)]
  /\ inbox' = [b \in Conns |-> IF b \in to THEN Append(inbox[b], frame) ELSE inbox[b]]
  /\ last' = NoFrame
  /\ UNCHANGED << now, conn, active_connections, user_data, agg, effects_log,
                  reactions_log, last_arrival, broadcasts, effect_log_errors,
                  reaction_log_errors, users, ladderIn, ladderOut, hook, viewer, det, renderer >>

(***************************************************************************)
(* useReactionDetection: detectConcentrating, detectNod, updateReactions   *)
(***************************************************************************)
RECURSIVE SumSeq(_)
SumSeq(q) == IF q = << >> THEN 0 ELSE Head(q) + SumSeq(Tail(q))

RECURSIVE SumSquares(_)
SumSquares(q) == IF q = << >> THEN 0 ELSE Head(q) * Head(q) + SumSquares(Tail(q))

\* q.slice(-n)
SliceLast(q, n) == IF Len(q) <= n THEN q ELSE SubSeq(q, Len(q) - n + 1, Len(q))

\* stdDev < HEAD_MOVEMENT_THRESHOLD with avg = sum / n and
\* variance = sum of (y - avg)^2 / n, both sides squared and times n^2
isStill(recentY) ==
  LET n == Len(recentY) IN
  n * SumSquares(recentY) - SumSeq(recentY) * SumSeq(recentY)
    < HEAD_MOVEMENT_THRESHOLD * HEAD_MOVEMENT_THRESHOLD * n * n

\* detectConcentrating: with fewer than 10 values in headYHistory the brows
\* decide alone, else the brows and the spread of the last 10 values
detectConcentrating(headYHistory, browsDown) ==
  IF Len(headYHistory) < CONCENTRATING_FRAMES
  THEN browsDown
  ELSE browsDown /\ isStill(SliceLast(headYHistory, CONCENTRATING_FRAMES))

\* a variant: the down state has no timeout
nod_timeoutNever(downDuration) == FALSE

\* downDuration > TIMEOUT_MS
nod_timeout(downDuration) == downDuration > TIMEOUT_MS

\* headYHistory.current.push(currentY); if (length > 8) shift()
PushHeadY(headYHistory, currentY) ==
  LET pushed == Append(headYHistory, currentY) IN
  IF Len(pushed) > HISTORY_MAX THEN Tail(pushed) ELSE pushed

\* detectNod at time currentTime with the nose tip at currentY
detectNod(d, currentY, currentTime) ==
  LET history == PushHeadY(d.headYHistory, currentY)
      avgY == (SumSeq(history) * AvgScale) \div Len(history)
      deltaFromPrev == avgY - d.prevHeadY
      threshold == DOWN_MOVEMENT_THRESHOLD * AvgScale
      moved == IF deltaFromPrev > threshold THEN "down"
               ELSE IF deltaFromPrev < 0 - threshold THEN "up" ELSE "none"
      d1 == [d EXCEPT !.headYHistory = history, !.prevHeadY = avgY,
                      !.moved = moved, !.counted = FALSE, !.log = ""]
  IN
  IF Len(history) < NOD_WARMUP
  THEN [d EXCEPT !.headYHistory = history, !.prevHeadY = currentY * AvgScale,
                 !.moved = "none", !.counted = FALSE, !.log = ""]
  ELSE IF d.nodState = "down" /\ nod_timeout(currentTime - d.downStateStartTime)
  THEN [d1 EXCEPT !.nodState = "neutral", !.log = "timeout"]
  ELSE IF d.nodState = "neutral" /\ moved = "down"
  THEN [d1 EXCEPT !.nodState = "down", !.log = "neutral-down",
                  !.downStateStartTime = currentTime,
                  !.lastNodTime = IF currentTime - @ > NOD_GAP_MS THEN currentTime ELSE @,
                  !.counted = currentTime - d.lastNodTime > NOD_GAP_MS]
  ELSE IF d.nodState = "down" /\ moved = "up"
  THEN [d1 EXCEPT !.nodState = "neutral", !.log = "down-neutral"]
  ELSE d1

\* updateReactions(result) with a face, dt after the call before: the states
\* are detected first, then detectNod runs
updateReactions(currentY, browsDown, dt) ==
  LET currentTime == det.now + dt IN
  /\ currentTime <= MaxTime
  /\ det' = [detectNod(det, currentY, currentTime) EXCEPT
               !.now = currentTime,
               !.isConcentrating = detectConcentrating(det.headYHistory, browsDown),
               !.browsDown = browsDown,
               !.face = TRUE]
  /\ UNCHANGED << now, conn, inbox, active_connections, user_data, agg, effects_log,
                  reactions_log, frames, last_arrival, broadcasts, effect_log_errors,
                  reaction_log_errors, users, client, hook, viewer, last, ladderIn,
                  ladderOut, renderer >>

\* updateReactions(result) without a face: every state false, no detector runs
updateReactionsNoFace(dt) ==
  /\ det.now + dt <= MaxTime
  /\ det' = [det EXCEPT !.now = @ + dt, !.isConcentrating = FALSE,
                        !.browsDown = FALSE, !.face = FALSE,
                        !.moved = "none", !.counted = FALSE, !.log = ""]
  /\ UNCHANGED << now, conn, inbox, active_connections, user_data, agg, effects_log,
                  reactions_log, frames, last_arrival, broadcasts, effect_log_errors,
                  reaction_log_errors, users, client, hook, viewer, last, ladderIn,
                  ladderOut, renderer >>

(***************************************************************************)
(* useEffectRenderer                                                       *)
(***************************************************************************)
\* the effect types animate's switch has a case for
RenderedTypes == {"sparkle", "wave", "excitement", "bounce", "cheer", "shimmer",
                  "focus", "groove", "clapping_icons"}

\* a variant: an effect is still drawn at the instant its duration is over
effect_runningInclusive(elapsed, effect) == elapsed <= effect.durationMs

\* elapsed < effect.durationMs
effect_running(elapsed, effect) == elapsed < effect.durationMs

\* FrameStep ms pass without a frame or a message
RendererWait ==
  /\ renderer.now + FrameStep <= MaxTime
  /\ renderer' = [renderer EXCEPT !.now = @ + FrameStep]
  /\ UNCHANGED << now, conn, inbox, active_connections, user_data, agg, effects_log,
                  reactions_log, frames, last_arrival, broadcasts, effect_log_errors,
                  reaction_log_errors, users, client, hook, viewer, det, last,
                  ladderIn, ladderOut >>

\* ws.onmessage with type 'effect': setCurrentEffect(data); the effect of
\* useEffectRenderer on currentEffect then sets currentEffectRef.current and
\* effectStartTimeRef.current = performance.now()
OnEffect(effect) ==
  /\ renderer' = [renderer EXCEPT !.currentEffectRef = effect,
                                  !.effectStartTimeRef = renderer.now,
                                  !.receivedAt = renderer.now,
                                  !.wasDrawn = FALSE]
  /\ UNCHANGED << now, conn, inbox, active_connections, user_data, agg, effects_log,
                  reactions_log, frames, last_arrival, broadcasts, effect_log_errors,
                  reaction_log_errors, users, client, hook, viewer, det, last,
                  ladderIn, ladderOut >>

\* animate: clearRect, then the effect of currentEffectRef is drawn while
\* elapsed < durationMs (if the switch knows its type), else the ref is set
\* to null
animate ==
  LET effect == renderer.currentEffectRef
      elapsed == renderer.now - renderer.effectStartTimeRef
  IN
  /\ renderer' =
       IF effect = NoEffect
       THEN [renderer EXCEPT !.drawn = EmptyCanvas, !.log = ""]
       ELSE IF effect_running(elapsed, effect)
       THEN IF effect.effectType \in RenderedTypes
            THEN [renderer EXCEPT !.drawn = [effect |-> effect,
                                            receivedAt |-> renderer.receivedAt,
                                            at |-> renderer.now],
                                  !.log = "", !.wasDrawn = TRUE]
            ELSE [renderer EXCEPT !.drawn = EmptyCanvas, !.log = "unsupported"]
       ELSE [renderer EXCEPT !.currentEffectRef = NoEffect, !.drawn = EmptyCanvas,
                             !.log = "ended"]
  /\ UNCHANGED << now, conn, inbox, active_connections, user_data, agg, effects_log,
                  reactions_log, frames, last_arrival, broadcasts, effect_log_errors,
                  reaction_log_errors, users, client, hook, viewer, det, last,
                  ladderIn, ladderOut >>

(***************************************************************************)
(* ViewingScreen: event counters, reset interval, send interval            *)
(***************************************************************************)
\* 100 ms pass and neither interval is due
ViewerWait ==
  /\ viewer.resetIn > 0
  /\ viewer.sendIn > 0
  /\ viewer' = [viewer EXCEPT !.resetIn = @ - DETECT_INTERVAL_MS,
                              !.sendIn = @ - DETECT_INTERVAL_MS,
                              !.sinceReset = @ + DETECT_INTERVAL_MS]
  /\ UNCHANGED << now, conn, inbox, active_connections, user_data, agg, effects_log,
                  reactions_log, frames, last_arrival, broadcasts, effect_log_errors,
                  reaction_log_errors, users, client, hook, last, ladderIn, ladderOut, det, renderer >>

\* the detection loop sees an event: setEvents(prev => ({...prev, nod: prev.nod + 1}));
\* the render that follows copies events to eventsRef.current and, events
\* being a dependency of the reset effect, clears the reset interval and
\* sets a new one
DetectEvent ==
  /\ viewer.events < MaxEvents
  /\ viewer.fresh < MaxEvents
  /\ viewer' = [viewer EXCEPT !.events = @ + 1,
                              !.eventsRef = viewer.events + 1,
                              !.fresh = @ + 1,
                              !.resetIn = RESET_INTERVAL_MS]
  /\ UNCHANGED << now, conn, inbox, active_connections, user_data, agg, effects_log,
                  reactions_log, frames, last_arrival, broadcasts, effect_log_errors,
                  reaction_log_errors, users, client, hook, last, ladderIn, ladderOut, det, renderer >>

\* the reset interval fires: resetEvents(); resetAudioEvents(); the new
\* events object makes the effect set the interval again
resetTimer ==
  /\ viewer.resetIn = 0
  /\ viewer' = [viewer EXCEPT !.events = 0, !.eventsRef = 0,
                              !.resetIn = RESET_INTERVAL_MS, !.sinceReset = 0]
  /\ UNCHANGED << now, conn, inbox, active_connections, user_data, agg, effects_log,
                  reactions_log, frames, last_arrival, broadcasts, effect_log_errors,
                  reaction_log_errors, users, client, hook, last, ladderIn, ladderOut, det, renderer >>

\* the send interval's callback: nothing while the video is not playing,
\* else sendReactionData({states, events: eventsRef.current, ...}); the
\* counters are left as they are
sendTimer(v) ==
  [v EXCEPT !.sendIn = SEND_INTERVAL_MS,
            !.sent = IF v.isPlaying
                     THEN << [events |-> v.eventsRef, fresh |-> v.fresh] >>
                     ELSE @,
            !.fresh = IF v.isPlaying THEN 0 ELSE @]

\* the send interval fires
SendIntervalFires ==
  /\ viewer.sendIn = 0
  /\ viewer.isPlaying => frames < MaxFrames
  /\ frames' = IF viewer.isPlaying THEN frames + 1 ELSE frames
  /\ viewer' = sendTimer(viewer)
  /\ UNCHANGED << now, conn, inbox, active_connections, user_data, agg, effects_log,
                  reactions_log, last_arrival, broadcasts, effect_log_errors,
                  reaction_log_errors, users, client, hook, last, ladderIn, ladderOut, det, renderer >>

\* setIsPlaying on play, pause and end: isPlaying is a dependency of the
\* send effect, whose interval is cleared and set again
SetIsPlaying ==
  /\ viewer' = [viewer EXCEPT !.isPlaying = ~@, !.sendIn = SEND_INTERVAL_MS]
  /\ UNCHANGED << now, conn, inbox, active_connections, user_data, agg, effects_log,
                  reactions_log, frames, last_arrival, broadcasts, effect_log_errors,
                  reaction_log_errors, users, client, hook, last, ladderIn, ladderOut, det, renderer >>

(***************************************************************************)
(* useWebSocket                                                            *)
(***************************************************************************)
\* wsRef.current && wsRef.current.readyState === WebSocket.OPEN
ReadyToSend(h) == h.wsRef # None /\ h.ws[h.wsRef].readyState = "open"

\* a slot no socket and no timer of the hook uses
FreeSlot(h, s) ==
  \/ h.ws[s].readyState = "none"
  \/ h.ws[s].readyState = "closed" /\ h.ws[s].timer = NoTimer

HasFreeSocket(h) == \E s \in Sockets : FreeSlot(h, s)

\* connect(), the callback that closed over userId u:
\* ws = new WebSocket(wsUrl); wsRef.current = ws
connect(h, u) ==
  LET s == CHOOSE x \in Sockets :
             /\ FreeSlot(h, x)
             /\ \A y \in Sockets : y < x => ~FreeSlot(h, y)
  IN [h EXCEPT !.wsRef = s,
               !.ws[s] = [readyState |-> "connecting", userId |-> u, out |-> << >>,
                          timer |-> NoTimer, late |-> u \in h.cleaned]]

\* the cleanup of the effect: clearTimeout(reconnectTimeoutRef.current) and
\* wsRef.current.close()
cleanup(h) ==
  LET r == h.reconnectTimeoutRef
      cleared == IF r = None THEN h.ws ELSE [h.ws EXCEPT ![r].timer = NoTimer]
  IN [h EXCEPT !.cleaned = @ \cup {h.connect},
               !.ws = IF h.wsRef = None THEN cleared
                      ELSE [cleared EXCEPT ![h.wsRef].readyState =
                              IF @ \in {"connecting", "open"} THEN "closing" ELSE @]]

\* a variant: one more reconnect than MAX_RECONNECT_ATTEMPTS
may_reconnectOnceMore(attempts) == attempts <= MAX_RECONNECT_ATTEMPTS

\* reconnectAttempts.current < MAX_RECONNECT_ATTEMPTS
may_reconnect(attempts) == attempts < MAX_RECONNECT_ATTEMPTS

\* the effects of a component's first commit.  App renders with userId ''
\* (setUserId(getUserId()) is queued) and the effect of useWebSocket calls a
\* connect that has closed over ''; ViewingScreen is rendered by App once
\* userId is set and gets it as a prop
HookMount(i) ==
  LET u == IF i = "App" THEN "" ELSE StoredUserId IN
  /\ hook[i].phase = "fresh"
  /\ i = "ViewingScreen" => hook["App"].userId # ""
  /\ hook' = [hook EXCEPT ![i] =
                 connect([@ EXCEPT !.phase = "mounted", !.userId = u, !.connect = u], u)]
  /\ UNCHANGED << now, conn, inbox, active_connections, user_data, agg, effects_log,
                  reactions_log, frames, last_arrival, broadcasts, effect_log_errors,
                  reaction_log_errors, users, client, viewer, det, renderer, last,
                  ladderIn, ladderOut >>

\* App's render with the userId: connect is a new callback, so the effect is
\* cleaned up and run again (connect())
RenderUserId ==
  /\ hook["App"].phase = "mounted"
  /\ hook["App"].userId = ""
  /\ HasFreeSocket(hook["App"])
  /\ hook' = [hook EXCEPT !["App"] =
                 connect([cleanup(@) EXCEPT !.userId = StoredUserId,
                                            !.connect = StoredUserId],
                         StoredUserId)]
  /\ UNCHANGED << now, conn, inbox, active_connections, user_data, agg, effects_log,
                  reactions_log, frames, last_arrival, broadcasts, effect_log_errors,
                  reaction_log_errors, users, client, viewer, det, renderer, last,
                  ladderIn, ladderOut >>

\* App leaves the viewing screen: ViewingScreen unmounts and the cleanup of
\* its useWebSocket runs
HookUnmount ==
  /\ hook["ViewingScreen"].phase = "mounted"
  /\ hook' = [hook EXCEPT !["ViewingScreen"] = [cleanup(@) EXCEPT !.phase = "unmounted"]]
  /\ UNCHANGED << now, conn, inbox, active_connections, user_data, agg, effects_log,
                  reactions_log, frames, last_arrival, broadcasts, effect_log_errors,
                  reaction_log_errors, users, client, viewer, det, renderer, last,
                  ladderIn, ladderOut >>

\* ws.onopen: setError(null); reconnectAttempts.current = 0;
\* ws.send(JSON.stringify({ userId, experimentGroup }))
SocketOpen(i, s) ==
  /\ hook[i].ws[s].readyState = "connecting"
  /\ frames < MaxFrames
  /\ frames' = frames + 1
  /\ hook' = [hook EXCEPT ![i].reconnectAttempts = 0,
                          ![i].error = FALSE,
                          ![i].ws[s].readyState = "open",
                          ![i].ws[s].out = << [kind |-> "handshake",
                                               userId |-> hook[i].ws[s].userId] >>]
  /\ UNCHANGED << now, conn, inbox, active_connections, user_data, agg, effects_log,
                  reactions_log, last_arrival, broadcasts, effect_log_errors,
                  reaction_log_errors, users, client, viewer, det, renderer, last,
                  ladderIn, ladderOut >>

\* ws.onclose, after the connection failed, was lost or was closed by the
\* cleanup: wsRef.current = null; below MAX_RECONNECT_ATTEMPTS a timer is
\* set that calls the connect of this socket's render after RECONNECT_DELAY,
\* else setError(...)
SocketClose(i, s) ==
  LET again == may_reconnect(hook[i].reconnectAttempts) IN
  /\ hook[i].ws[s].readyState \in {"connecting", "open", "closing"}
  /\ hook' = [hook EXCEPT ![i].ws[s].readyState = "closed",
                          ![i].ws[s].timer = IF again THEN RECONNECT_DELAY ELSE NoTimer,
                          ![i].wsRef = None,
                          ![i].reconnectAttempts = IF again THEN @ + 1 ELSE @,
                          ![i].reconnectTimeoutRef = IF again THEN s ELSE @,
                          ![i].error = IF again THEN @ ELSE TRUE]
  /\ UNCHANGED << now, conn, inbox, active_connections, user_data, agg, effects_log,
                  reactions_log, frames, last_arrival, broadcasts, effect_log_errors,
                  reaction_log_errors, users, client, viewer, det, renderer, last,
                  ladderIn, ladderOut >>

\* RECONNECT_DELAY ms pass: the timers that are set become due
HookWait ==
  /\ \E i \in Hooks, s \in Sockets : hook[i].ws[s].timer > 0
  /\ hook' = [i \in Hooks |->
                [hook[i] EXCEPT !.ws = [s \in Sockets |->
                   [@[s] EXCEPT !.timer = IF @ > 0 THEN @ - RECONNECT_DELAY ELSE @]]]]
  /\ UNCHANGED << now, conn, inbox, active_connections, user_data, agg, effects_log,
                  reactions_log, frames, last_arrival, broadcasts, effect_log_errors,
                  reaction_log_errors, users, client, viewer, det, renderer, last,
                  ladderIn, ladderOut >>

\* the reconnect timer set by the onclose of socket s fires: connect()
ReconnectTimer(i, s) ==
  /\ hook[i].ws[s].timer = 0
  /\ hook' = [hook EXCEPT ![i] =
                 connect([@ EXCEPT !.ws[s].timer = NoTimer], hook[i].ws[s].userId)]
  /\ UNCHANGED << now, conn, inbox, active_connections, user_data, agg, effects_log,
                  reactions_log, frames, last_arrival, broadcasts, effect_log_errors,
                  reaction_log_errors, users, client, viewer, det, renderer, last,
                  ladderIn, ladderOut >>

\* sendReactionData / sendVideoEvent of a mounted component whose userId is
\* set: return unless the socket of wsRef is OPEN, else wsRef.current.send(...)
HookSend(i, kind) ==
  /\ hook[i].phase = "mounted"
  /\ hook[i].userId # ""
  /\ ReadyToSend(hook[i])
  /\ frames < MaxFrames
  /\ frames' = frames + 1
  /\ hook' = [hook EXCEPT ![i].ws[hook[i].wsRef].out =
                 Append(@, [kind |-> kind,
                            userId |-> IF kind = "reaction" THEN hook[i].userId ELSE ""])]
  /\ UNCHANGED << now, conn, inbox, active_connections, user_data, agg, effects_log,
                  reactions_log, last_arrival, broadcasts, effect_log_errors,
                  reaction_log_errors, users, client, viewer, det, renderer, last,
                  ladderIn, ladderOut >>

(***************************************************************************)
(* aggregation_loop and broadcast                                          *)
(***************************************************************************)
\* the task after an exception left aggregation_loop: what broadcast was
\* doing stays on record
Dead(a) == [a EXCEPT !.pc = "dead", !.sleepStart = 0, !.it = NewIter(<< >>),
                     !.cur = Hole, !.since = 0]

\* for user_id in disconnected_users: del active_connections[user_id]
\* (a key that is gone raises KeyError)
RECURSIVE DelAll(_, _)
DelAll(d, user_ids) ==
  IF user_ids = << >> THEN [ok |-> TRUE, d |-> d]
  ELSE IF ~Has(d, Head(user_ids)) THEN [ok |-> FALSE, d |-> d]
  ELSE DelAll(DictDel(d, Head(user_ids)), Tail(user_ids))

\* broadcast(queue[1]) begins: the for loop takes its first entry and waits in
\* ws.send_text; with no entry the loop body never runs
RECURSIVE StartLoop(_, _, _)
StartLoop(queue, d, t) ==
  LET it == NewIter(d)
      r == IterNext(d, it)
  IN
  IF queue = << >> THEN [agg |-> Sleeping(t), d |-> Compact(d)]
  ELSE IF r.kind = "item"
    THEN [agg |-> [pc |-> "send", sleepStart |-> 0, queue |-> queue,
                   it |-> [it EXCEPT !.pos = r.i + 1, !.len = it.len - 1],
                   cur |-> d[r.i], disconnected_users |-> << >>,
                   start |-> Registered(d), since |-> t],
          d |-> d]
    ELSE StartLoop(Tail(queue), d, t)

\* the for loop asks for its next entry after a send returned or raised
Continue(a, d, disconnected, t) ==
  LET r == IterNext(d, a.it)
      del == DelAll(d, disconnected)
      b == [a EXCEPT !.disconnected_users = disconnected]
  IN
  IF r.kind = "item"
    THEN [agg |-> [b EXCEPT !.it = [a.it EXCEPT !.pos = r.i + 1, !.len = a.it.len - 1],
                            !.cur = d[r.i], !.since = t],
          d |-> d]
  ELSE IF r.kind = "error" THEN [agg |-> Dead(b), d |-> Compact(d)]
  ELSE IF ~del.ok THEN [agg |-> Dead(b), d |-> Compact(del.d)]
  ELSE StartLoop(Tail(a.queue), del.d, t)

\* a bug: the loop does not wait, a tick that was missed is made up at once
TickDueAtOnce == agg.pc = "sleep"

\* the loop is in asyncio.sleep(1) and the second is over
TickDue == agg.pc = "sleep" /\ now - agg.sleepStart >= SLEEP_MS

\* a bug: the row is written only once broadcast has returned
log_effectLate(rows, effects, dbOk) == rows

\* a bug: the INSERT is retried after it went through
log_effectTwice(rows, effects, dbOk) == IF dbOk THEN rows \o effects \o effects ELSE rows

\* log_effect(effect): one INSERT into effects_log per effect, none when the
\* database raises
log_effect(rows, effects, dbOk) == IF dbOk THEN rows \o effects ELSE rows

\* a bug: no try / except around log_effect, the exception leaves the loop
after_log_effectRaises(a, dbOk) == IF dbOk THEN a ELSE Dead(a)

\* try: log_effect(effect) / except Exception: print(...): the loop goes on to
\* broadcast either way
after_log_effect(a, dbOk) == a

\* one tick: the loop wakes from asyncio.sleep(1), aggregates, decides, logs
\* the effect and enters broadcast
Tick(dbOk) ==
  LET A == active_users(user_data, now)
      ranks == IF A = {} THEN << >>
               ELSE determine_effect(ratio_state(user_data, A),
                                     density_event(user_data, A))
      effects == [i \in 1..Len(ranks) |-> EffectFrame(ranks[i], now)]
      res == StartLoop(effects, active_connections, now)
  IN
  /\ TickDue
  /\ dbOk \/ effects # << >>
  /\ effects_log' = log_effect(effects_log, effects, dbOk)
  /\ effect_log_errors' = IF dbOk THEN effect_log_errors
                          ELSE effect_log_errors + Len(effects)
  /\ agg' = after_log_effect(res.agg, dbOk)
  /\ broadcasts' = broadcasts \o effects
  /\ active_connections' = res.d
  /\ last' = NoFrame
  /\ UNCHANGED << now, conn, inbox, user_data, reactions_log, frames, last_arrival,
                  ladderIn, ladderOut,
                  reaction_log_errors, users, client, hook, viewer, det, renderer >>

ManualEffectTypes == {"sparkle", "wave"}

\* a bug: the sender's group is not looked at
manual_allowedAny(c) == conn[c].user_id # None

\* manual_effect is for the debug group only
manual_allowed(c) == conn[c].user_id # None /\ conn[c].group = "debug"

\* manual_effect: from a debug sender, an Effect with the server's timestamp
\* is logged and handed to every registered connection; from anyone else the
\* frame is rejected
ManualEffect(c, effectType, dbOk) ==
  LET effect == [type |-> "effect", effectType |-> effectType,
                 durationMs |-> durationMs, timestamp |-> now]
      effects == IF manual_allowed(c) THEN << effect >> ELSE << >>
      to == IF manual_allowed(c)
              THEN {b \in Registered(active_connections) : conn[b].status = "open"}
              ELSE {}
  IN
  /\ conn[c].status = "open"
  /\ conn[c].user_id # None
  /\ frames < MaxFrames
  /\ dbOk \/ effects # << >>
  /\ frames' = frames + 1
  /\ effects_log' = log_effect(effects_log, effects, dbOk)
  /\ effect_log_errors' = IF dbOk THEN effect_log_errors
                          ELSE effect_log_errors + Len(effects)
  /\ broadcasts' = broadcasts \o effects
  /\ inbox' = [b \in Conns |-> IF b \in to THEN Append(inbox[b], effect) ELSE inbox[b]]
  /\ last' = [op |-> "manual_effect", c |-> c,
              frame |-> [type |-> "manual_effect", effectType |-> effectType,
                         durationMs |-> durationMs]]
  /\ UNCHANGED << now, conn, active_connections, user_data, agg, reactions_log,
                  last_arrival, ladderIn, ladderOut,
                  reaction_log_errors, users, client, hook, viewer, det, renderer >>

\* a bug: the sends are fired without being awaited and a later frame
\* overtakes the earlier ones on the socket
SendReturnsOvertaking ==
  LET c == agg.cur.ws
      ok == conn[c].status = "open"
      disconnected == IF ok THEN agg.disconnected_users
                      ELSE Append(agg.disconnected_users, agg.cur.user)
      res == Continue(agg, active_connections, disconnected, now)
  IN
  /\ agg.pc = "send"
  /\ inbox' = IF ok THEN [inbox EXCEPT ![c] = << Head(agg.queue) >> \o @] ELSE inbox
  /\ agg' = res.agg
  /\ active_connections' = res.d
  /\ last' = NoFrame
  /\ UNCHANGED << now, conn, user_data, effects_log, reactions_log, frames,
                  last_arrival, broadcasts, effect_log_errors,
                  ladderIn, ladderOut,
                  reaction_log_errors, users, client, hook, viewer, det, renderer >>

\* await ws.send_text(json.dumps(message)) returns, or raises and the user is
\* noted in disconnected_users; then the loop goes on
SendReturns ==
  LET c == agg.cur.ws
      ok == conn[c].status = "open"
      disconnected == IF ok THEN agg.disconnected_users
                      ELSE Append(agg.disconnected_users, agg.cur.user)
      res == Continue(agg, active_connections, disconnected, now)
  IN
  /\ agg.pc = "send"
  /\ inbox' = IF ok THEN [inbox EXCEPT ![c] = Append(@, Head(agg.queue))] ELSE inbox
  /\ agg' = res.agg
  /\ active_connections' = res.d
  /\ last' = NoFrame
  /\ UNCHANGED << now, conn, user_data, effects_log, reactions_log, frames,
                  last_arrival, broadcasts, effect_log_errors,
                  ladderIn, ladderOut,
                  reaction_log_errors, users, client, hook, viewer, det, renderer >>

\* a second passes; a sleeping loop wakes when its second is over
Advance ==
  /\ now + SLEEP_MS <= MaxTime
  /\ ~TickDue
  /\ now' = now + SLEEP_MS
  /\ last' = NoFrame
  /\ UNCHANGED << conn, inbox, active_connections, user_data, agg, effects_log,
                  reactions_log, frames, last_arrival, broadcasts, effect_log_errors,
                  ladderIn, ladderOut,
                  reaction_log_errors, users, client, hook, viewer, det, renderer >>

(***************************************************************************)
(* The ladder on its own: ratios and densities of one tick, drawn from     *)
(* counts over a cohort of n active users.                                 *)
(***************************************************************************)
LadderInputs ==
  [n : 1..MaxActive, states : [StateKeys -> 0..MaxCount],
   events : [EventKeys -> 0..MaxEvents]]

LadderRatio ==
  [key \in StateKeys |-> [num |-> ladderIn.states[key], den |-> ladderIn.n]]

LadderDensity ==
  [key \in EventKeys |->
     [num |-> ladderIn.events[key], den |-> ladderIn.n * WINDOW_SECONDS]]

InitLadder ==
  /\ now = 0
  /\ conn = [c \in Conns |-> FreeConn]
  /\ inbox = [c \in Conns |-> << >>]
  /\ active_connections = << >>
  /\ user_data = [u \in Users |-> << >>]
  /\ agg = Sleeping(0)
  /\ effects_log = << >>
  /\ reactions_log = 0
  /\ frames = 0
  /\ last_arrival = [u \in Users |-> 0]
  /\ broadcasts = << >>
  /\ effect_log_errors = 0
  /\ reaction_log_errors = 0
  /\ users = [u \in Users |-> 0]
  /\ client = [c \in Conns |-> FreeClient]
  /\ hook = FreshHook
  /\ viewer = FreshViewer
  /\ det = FreshDet
  /\ renderer = FreshRenderer
  /\ last = NoFrame
  /\ ladderIn \in LadderInputs
  /\ ladderOut = << >>

\* effect = determine_effect(ratio_state, density_event)
Decide ==
  /\ ladderOut = << >>
  /\ ladderOut' = << determine_effect(LadderRatio, LadderDensity) >>
  /\ UNCHANGED << now, conn, inbox, active_connections, user_data, agg, effects_log,
                  reactions_log, frames, last_arrival, last, broadcasts, effect_log_errors,
                  ladderIn,
                  reaction_log_errors, users, client, hook, viewer, det, renderer >>

(***************************************************************************)
(* Specifications.  The actions are the same everywhere; a specification   *)
(* fixes which clients and which frames its runs draw.                     *)
(***************************************************************************)
\* the store, the registry and the aggregation
Next ==
  \/ \E c \in Conns, u \in Users : u <= c /\ Accept(c, u, FALSE, "control2")
  \/ \E c \in Conns : ClientHandshake(c, TRUE)
  \/ \E c \in Conns, p \in {HandUp} : ClientReaction(c, p, TRUE)
  \/ \E c \in Conns : Break(c)
  \/ \E c \in Conns : Disconnect(c)
  \/ Tick(TRUE)
  \/ SendReturns
  \/ Advance

Spec == Init /\ [][Next]_vars

\* the video relay: hosts and participants, transport frames only
NextRelay ==
  \/ \E c \in Conns, u \in Users, h \in BOOLEAN : u <= c /\ Accept(c, u, h, "experiment")
  \/ \E c \in Conns : ClientHandshake(c, TRUE)
  \/ \E c \in Conns, tag \in VideoTags, t \in VideoTimes : VideoFrame(c, tag, t)
  \/ \E c \in Conns : Break(c)
  \/ \E c \in Conns : Disconnect(c)

SpecRelay == Init /\ [][NextRelay]_vars

\* the lobby of the experiment group: the host picks the video, the
\* participants wait for it
NextLobby ==
  \/ \E c \in Conns, u \in Users, h \in BOOLEAN : u = c /\ Accept(c, u, h, "experiment")
  \/ \E c \in Conns : ClientHandshake(c, TRUE)
  \/ \E c \in Conns : AppMount(c)
  \/ \E c \in Conns : ClickReady(c)
  \/ \E c \in Conns, v \in VideoIds : handleStartViewing(c, v)
  \/ \E c \in Conns : handleCameraReady(c)
  \/ \E c \in Conns : OnVideoUrlSelected(c)
  \/ \E c \in Conns : Break(c)
  \/ \E c \in Conns : Disconnect(c)

SpecLobby == Init /\ [][NextLobby]_vars

\* the time-sync relay: requests of participants, answers of hosts
NextSync ==
  \/ \E c \in Conns, u \in Users, h \in BOOLEAN : u <= c /\ Accept(c, u, h, "experiment")
  \/ \E c \in Conns : ClientHandshake(c, TRUE)
  \/ \E c \in Conns : TimeSyncRequest(c)
  \/ \E c \in Conns, u \in Users, t \in VideoTimes : TimeSyncResponse(c, u, t)
  \/ \E c \in Conns : Break(c)
  \/ \E c \in Conns : Disconnect(c)

SpecSync == Init /\ [][NextSync]_vars

\* the correction of a participant's player by the host's time
NextSeek ==
  \/ \E c \in Conns, u \in Users, h \in BOOLEAN : u = c /\ Accept(c, u, h, "experiment")
  \/ \E c \in Conns : ClientHandshake(c, TRUE)
  \/ \E c \in Conns : AppMount(c)
  \/ \E c \in Conns : ClickReady(c)
  \/ \E c \in Conns, v \in VideoIds : handleStartViewing(c, v)
  \/ \E c \in Conns : handleCameraReady(c)
  \/ \E c \in Conns : OnVideoUrlSelected(c)
  \/ \E c \in Conns, u \in Users, t \in VideoTimes : TimeSyncResponse(c, u, t)
  \/ \E c \in Conns : onPlayerReady(c)
  \/ \E c \in Conns, t \in PlayerTimes : PlayerProgress(c, t)
  \/ \E c \in Conns : OnTimeSyncResponse(c)
  \/ \E c \in Conns : Break(c)

SpecSeek == Init /\ [][NextSeek]_vars

\* viewing sessions: tabs of the control group and of the experiment group
\* play, pause, resume and finish the video
NextSession ==
  \/ \E c \in Conns, h \in BOOLEAN, g \in {"control2", "experiment"} :
       (h => g = "experiment") /\ Accept(c, c, h, g)
  \/ \E c \in Conns : ClientHandshake(c, TRUE)
  \/ \E c \in Conns : AppMount(c)
  \/ \E c \in Conns : ClickReady(c)
  \/ \E c \in Conns, v \in VideoIds : handleStartViewing(c, v)
  \/ \E c \in Conns : handleCameraReady(c)
  \/ \E c \in Conns : OnVideoUrlSelected(c)
  \/ \E c \in Conns : onPlayerReady(c)
  \/ \E c \in Conns, data \in {ENDED, PLAYING, PAUSED} : onPlayerStateChange(c, data)
  \/ \E c \in Conns : Break(c)

SpecSession == Init /\ [][NextSession]_vars

\* the canvas of one tab: effects arrive, frames are drawn, time passes
NextRender ==
  \/ RendererWait
  \/ \E effect \in ArrivingEffects : OnEffect(effect)
  \/ animate

SpecRender == Init /\ [][NextRender]_vars

\* the detection loop of one tab
NextDetect ==
  \/ \E currentY \in HeadYs, browsDown \in BOOLEAN, dt \in Dts :
       updateReactions(currentY, browsDown, dt)
  \/ \E dt \in Dts : updateReactionsNoFace(dt)

SpecDetect == Init /\ [][NextDetect]_vars

\* one ViewingScreen: detections, the reset interval and the send interval
NextEvents ==
  \/ ViewerWait
  \/ DetectEvent
  \/ resetTimer
  \/ SendIntervalFires
  \/ SetIsPlaying

SpecEvents == Init /\ [][NextEvents]_vars

\* the sockets of one tab: mounts, the render with the userId, the unmount
\* of ViewingScreen, opens, closes and reconnects
NextHook ==
  \/ \E i \in Hooks : HookMount(i)
  \/ RenderUserId
  \/ HookUnmount
  \/ \E i \in Hooks, s \in Sockets : SocketOpen(i, s)
  \/ \E i \in Hooks, s \in Sockets : SocketClose(i, s)
  \/ HookWait
  \/ \E i \in Hooks, s \in Sockets : ReconnectTimer(i, s)
  \/ \E i \in Hooks, kind \in {"reaction", "video"} : HookSend(i, kind)

SpecHook == Init /\ [][NextHook]_vars

\* manual effects: clients of every experiment group press the button
NextManual ==
  \/ \E c \in Conns, u \in Users, g \in Groups : u <= c /\ Accept(c, u, FALSE, g)
  \/ \E c \in Conns : ClientHandshake(c, TRUE)
  \/ \E c \in Conns, e \in ManualEffectTypes, dbOk \in BOOLEAN : ManualEffect(c, e, dbOk)
  \/ \E c \in Conns : Break(c)
  \/ \E c \in Conns : Disconnect(c)

SpecManual == Init /\ [][NextManual]_vars

\* persistence: any write to the database may raise
NextPersist ==
  \/ \E c \in Conns, u \in Users : u <= c /\ Accept(c, u, FALSE, "control2")
  \/ \E c \in Conns, dbOk \in BOOLEAN : ClientHandshake(c, dbOk)
  \/ \E c \in Conns, dbOk \in BOOLEAN : ClientReaction(c, HandUp, dbOk)
  \/ \E dbOk \in BOOLEAN : Tick(dbOk)
  \/ SendReturns
  \/ Advance

SpecPersist == Init /\ [][NextPersist]_vars

\* the ladder alone
NextLadder == Decide

SpecLadder == InitLadder /\ [][NextLadder]_vars

(***************************************************************************)
(* Properties                                                              *)
(***************************************************************************)
IsEffect(f) == f.type = "effect"

Got(b, f) == \E i \in DOMAIN inbox[b] : inbox[b][i] = f

\* the ranks whose predicate holds on the store as it is now
RanksHolding ==
  LET A == active_users(user_data, now) IN
  IF A = {} THEN {}
  ELSE {k \in DOMAIN Ladder :
          RankHolds(k, ratio_state(user_data, A), density_event(user_data, A))}

\* C1: a tick hands at most one effect to broadcast, and no websocket is
\* written two effect frames decided by the same tick.
C1_AtMostOneEffect ==
  /\ Len(agg.queue) <= 1
  /\ \A c \in Conns : \A i, j \in DOMAIN inbox[c] :
       (i < j /\ IsEffect(inbox[c][i]) /\ IsEffect(inbox[c][j]))
         => inbox[c][i].timestamp # inbox[c][j].timestamp

\* a tick has just decided while the predicates of two ranks held
C1_Witness ==
  /\ agg.pc = "send"
  /\ agg.since = now
  /\ Len(agg.queue) = 1
  /\ Cardinality(RanksHolding) >= 2

LadderHolds(k) == RankHolds(k, LadderRatio, LadderDensity)

C3_NeverBlocksNorDrops ==
  /\ (agg.pc = "send" /\ now - agg.since >= SLEEP_MS) =>
       \A b \in agg.start \ {agg.cur.ws} :
         (conn[b].status = "open" /\ b \in Registered(active_connections))
           => Got(b, Head(agg.queue))
  /\ agg.pc = "dead" =>
       \A b \in agg.start :
         (conn[b].status = "open" /\ b \in Registered(active_connections))
           => Got(b, Head(agg.queue))

\* C4: no window ever holds more than 3 samples, and a frame that arrives
\* for a full window leaves the window without its oldest sample and with
\* the new one at the end.
C4_WindowBounded ==
  [][ /\ \A u \in Users : Len(user_data'[u]) <= maxlen
      /\ (frames' # frames /\ last'.op # "video") =>
           \E u \in Users :
             /\ user_data'[u] # << >>
             /\ user_data'[u] =
                  (IF Len(user_data[u]) = maxlen
                     THEN Append(Tail(user_data[u]), Last(user_data'[u]))
                     ELSE Append(user_data[u], Last(user_data'[u])))
             /\ \A v \in Users \ {u} : user_data'[v] = user_data[v] ]_vars

\* four frames on the only connection: the handshake's sample is gone
C4_Witness ==
  /\ conn[1].status = "open"
  /\ conn[1].sent = maxlen + 1
  /\ conn[2].status = "free"
  /\ Len(user_data[conn[1].user_id]) = maxlen
  /\ \A i \in 1..maxlen : user_data[conn[1].user_id][i].states # {}

\* C5: at a tick, a user is active iff their window is non-empty and the
\* newest sample was received at most 3000 ms ago.
C5_ActiveByReceiveTime ==
  TickDue =>
    \A u \in Users :
      u \in active_users(user_data, now)
        <=> (user_data[u] # << >> /\ now - last_arrival[u] <= ACTIVE_WINDOW_MS)

\* connection c carried one sample of a user nobody else spoke for, and is closed
SentOneAndLeft(c) ==
  /\ conn[c].status = "closed"
  /\ conn[c].sent = 1
  /\ \A b \in Conns \ {c} : conn[b].user_id # conn[c].user_id

Disconnects(c) == conn[c].status = "broken" /\ conn'[c].status = "closed"

C8_OneConnectionPerUser ==
  /\ \A u \in Users :
       Cardinality({i \in DOMAIN active_connections :
                      active_connections[i].user = u}) <= 1
  /\ \A c \in Conns :
       (conn[c].status = "open" /\ conn[c].user_id # None) =>
         /\ Has(active_connections, conn[c].user_id)
         /\ Lookup(active_connections, conn[c].user_id) = c

\* C9: a video_play frame from a connection that is not the host leaves the
\* server's state and every websocket as they were.
C9_NonHostIgnored ==
  [][ (last'.op = "video" /\ last'.frame.type = "video_play"
         /\ ~conn[last'.c].isHost)
        => UNCHANGED serverVars ]_vars

\* a participant sent video_play while another connection was registered
C9_Witness ==
  /\ last.op = "video"
  /\ last.frame.type = "video_play"
  /\ ~conn[last.c].isHost
  /\ \E b \in Registered(active_connections) \ {last.c} : conn[b].status = "open"

\* C10: a transport frame from the host is written, tag and fields as sent,
\* to every other registered connection that is open.
C10_HostRelayed ==
  [][ (last'.op = "video" /\ conn[last'.c].isHost) =>
        \A b \in Registered(active_connections) \ {last'.c} :
          conn[b].status = "open" => inbox'[b] = Append(inbox[b], last'.frame) ]_vars

\* the host's video_seek has reached a participant
C10_Witness ==
  /\ last.op = "video"
  /\ last.frame.type = "video_seek"
  /\ conn[last.c].isHost
  /\ \E b \in Registered(active_connections) \ {last.c} :
       /\ conn[b].status = "open"
       /\ ~conn[b].isHost
       /\ inbox[b] # << >>
       /\ Last(inbox[b]) = last.frame

\* the connections whose inbox grows or changes in this step
Written == {b \in Conns : inbox'[b] # inbox[b]}

RegisteredHosts == {b \in Registered(active_connections) : conn[b].isHost}

\* C11: a participant's time_sync_request is written to at most one
\* connection, a registered host, as a frame carrying the requester's id; with
\* one registered host whose socket is open it is written to that host, and
\* with no registered host nothing on the server changes.
C11_RequestToHostOnly ==
  [][ (last'.op = "time_sync_request" /\ ~conn[last'.c].isHost) =>
        /\ Cardinality(Written) <= 1
        /\ Written \subseteq RegisteredHosts
        /\ \A b \in Written :
             inbox'[b] = Append(inbox[b], [type |-> "time_sync_request",
                                          requesterId |-> conn[last'.c].user_id])
        /\ (\E h \in RegisteredHosts :
              RegisteredHosts = {h} /\ conn[h].status = "open") => Written = RegisteredHosts
        /\ RegisteredHosts = {} => UNCHANGED serverVars ]_vars

\* a participant's request has reached the host: the host holds it, tagged
\* with the requester's id, and the requester was written nothing
C11_Witness ==
  /\ last.op = "time_sync_request"
  /\ ~conn[last.c].isHost
  /\ \E h \in RegisteredHosts :
       /\ h # last.c
       /\ inbox[h] # << >>
       /\ Last(inbox[h]) = last.frame
       /\ last.frame.requesterId = conn[last.c].user_id
  /\ inbox[last.c] = << >>

\* C12: the host's time_sync_response is written to the connection
\* registered under its requesterId, with the host's currentTime, and to no
\* other connection.
C12_ResponseToRequesterOnly ==
  [][ (last'.op = "time_sync_response" /\ conn[last'.c].isHost) =>
        LET u == last'.frame.requesterId IN
        /\ \A b \in Written :
             /\ Has(active_connections, u)
             /\ b = Lookup(active_connections, u)
             /\ inbox'[b] = Append(inbox[b], [type |-> "time_sync_response",
                                             currentTime |-> last'.frame.currentTime])
        /\ (Has(active_connections, u)
              /\ conn[Lookup(active_connections, u)].status = "open")
             => Written = {Lookup(active_connections, u)} ]_vars

\* the host has answered a participant: the participant holds the answer,
\* the host's own socket was written nothing
C12_Witness ==
  /\ last.op = "time_sync_response"
  /\ conn[last.c].isHost
  /\ Has(active_connections, last.frame.requesterId)
  /\ LET b == Lookup(active_connections, last.frame.requesterId) IN
       /\ b # last.c
       /\ inbox[b] # << >>
       /\ Last(inbox[b]).type = "time_sync_response"
       /\ Last(inbox[b]).currentTime = last.frame.currentTime
  /\ inbox[last.c] = << >>

\* C13: at most one registered connection is flagged isHost.
C13_SingleHost == Cardinality(RegisteredHosts) <= 1

\* the Effect the server assembles from the manual_effect frame of this step
ManualEffectOf(frame) ==
  [type |-> "effect", effectType |-> frame.effectType,
   durationMs |-> frame.durationMs, timestamp |-> now]

\* C14: a manual_effect of a debug sender is handed to persistence and to
\* every registered open connection as one Effect; a manual_effect of any
\* other sender adds no effects_log row, hands nothing to broadcast and
\* changes nothing else on the server.
C14_ManualEffectDebugOnly ==
  [][ last'.op = "manual_effect" =>
        IF conn[last'.c].group = "debug"
          THEN /\ broadcasts' = Append(broadcasts, ManualEffectOf(last'.frame))
               /\ \/ effects_log' = Append(effects_log, ManualEffectOf(last'.frame))
                  \/ /\ effects_log' = effects_log
                     /\ effect_log_errors' = effect_log_errors + 1
               /\ \A b \in Registered(active_connections) :
                    conn[b].status = "open" =>
                      inbox'[b] = Append(inbox[b], ManualEffectOf(last'.frame))
          ELSE /\ UNCHANGED serverVars
               /\ UNCHANGED << broadcasts, effect_log_errors >> ]_vars

\* a debug sender's effect was logged and reached a listener; then a sender
\* outside the debug group pressed the button and nothing came of it
C14_Witness ==
  /\ last.op = "manual_effect"
  /\ conn[last.c].group # "debug"
  /\ \E b \in Registered(active_connections) \ {last.c} :
       /\ conn[b].status = "open"
       /\ conn[b].group = "debug"
  /\ Len(effects_log) = 1
  /\ broadcasts = effects_log
  /\ inbox[last.c] = effects_log

RECURSIVE IsSubSeq(_, _)
IsSubSeq(a, b) ==
  IF a = << >> THEN TRUE
  ELSE IF b = << >> THEN FALSE
  ELSE IF Head(a) = Head(b) THEN IsSubSeq(Tail(a), Tail(b))
  ELSE IsSubSeq(a, Tail(b))

\* C15 as stated: effects_log has as many rows as effects were broadcast.
C15_RowsEqualBroadcasts == Len(effects_log) = Len(broadcasts)

\* C15 amended: the rows of effects_log are effects that were broadcast, in
\* that order, one row each, and the effects without a row are as many as
\* the log_effect calls that raised.
C15_OneRowUnlessWriteFailed ==
  /\ IsSubSeq(effects_log, broadcasts)
  /\ Len(effects_log) + effect_log_errors = Len(broadcasts)

\* two effects were broadcast; the write of one raised, the other has its row
C15_Witness ==
  /\ Len(broadcasts) = 2
  /\ Len(effects_log) = 1
  /\ effect_log_errors = 1
  /\ \E c \in Conns : Len(inbox[c]) = 2

\* C16: an effect that broadcast is sending, or has sent to anyone, already
\* has its effects_log row.
C16_LoggedBeforeBroadcast ==
  /\ \A i \in DOMAIN agg.queue : IsSubSeq(<< agg.queue[i] >>, effects_log)
  /\ \A c \in Conns : \A i \in DOMAIN inbox[c] :
       IsEffect(inbox[c][i]) => IsSubSeq(<< inbox[c][i] >>, effects_log)

\* the send to the only subscriber failed (broadcast unregistered it), nobody
\* holds the effect, and its row is there
C16_Witness ==
  /\ agg.pc = "sleep"
  /\ Len(effects_log) = 1
  /\ broadcasts = effects_log
  /\ \A c \in Conns : inbox[c] = << >>
  /\ \E c \in Conns :
       /\ conn[c].status = "broken"
       /\ conn[c].user_id # None
       /\ ~Has(active_connections, conn[c].user_id)

\* a reaction frame is received and its log_reaction call raises
ReactionLogFails == frames' = frames + 1 /\ reactions_log' = reactions_log

\* C17: the step in which log_effect raises still hands the effect to
\* broadcast, closes no connection and leaves the loop alive; the step in
\* which log_reaction raises still stores the sample, closes no connection
\* and does not touch the loop or a broadcast in progress.
C17_PersistenceFailureTolerated ==
  [][ /\ effect_log_errors' > effect_log_errors =>
           /\ Len(broadcasts') = Len(broadcasts) + (effect_log_errors' - effect_log_errors)
           /\ effects_log' = effects_log
           /\ agg'.pc \in {"send", "sleep"}
           /\ agg'.pc = "send" <=> Registered(active_connections) # {}
           /\ conn' = conn
      /\ ReactionLogFails =>
           /\ \A c \in Conns : conn'[c].status = conn[c].status
           /\ \E c \in Conns :
                LET u == conn'[c].user_id IN
                /\ conn'[c].sent = conn[c].sent + 1
                /\ Len(user_data'[u]) =
                     IF Len(user_data[u]) < maxlen THEN Len(user_data[u]) + 1 ELSE maxlen
                /\ last_arrival'[u] = now
                /\ Has(active_connections', u)
           /\ agg' = agg
           /\ inbox' = inbox ]_vars

\* the write of the first effect raised, the effect reached a subscriber all
\* the same, and a later tick decided, logged and sent the next effect
C17_Witness ==
  /\ Len(broadcasts) = 2
  /\ effect_log_errors = 1
  /\ effects_log = << broadcasts[2] >>
  /\ \E c \in Conns : conn[c].status = "open" /\ inbox[c] = broadcasts
  /\ \A c \in Conns : conn[c].status \in {"open", "free"}

\* C18: the aggregation loop is never ended by an exception of a tick.
C18_TickFaultCaught == agg.pc # "dead"

\* the loop starts a tick in this step
TickStarts == agg.pc = "sleep" /\ agg' # agg

\* C19: a tick starts only while no tick is at work and no sooner than
\* 1000 ms after the work of the previous tick ended, and an effect is
\* decided only by a starting tick; so the effects decided are at least
\* 1000 ms apart, however long a tick was at work.
C19_NoOverlappingTicks ==
  [][ /\ TickStarts => now - agg.sleepStart >= SLEEP_MS
      /\ broadcasts' # broadcasts => TickStarts
      /\ \A i \in 1..(Len(broadcasts') - 1) :
           broadcasts'[i + 1].timestamp - broadcasts'[i].timestamp >= SLEEP_MS ]_vars

\* the work of a tick has lasted two periods; no other tick has started
C19_Witness ==
  /\ agg.pc = "send"
  /\ now - Head(agg.queue).timestamp >= 2 * SLEEP_MS
  /\ broadcasts = << Head(agg.queue) >>
  /\ effects_log = broadcasts

EffectsOf(c) == SelectSeq(inbox[c], IsEffect)

\* C20: the effect frames written to a websocket are in the order in which
\* the ticks decided them.
C20_DeliveryInDecisionOrder ==
  \A c \in Conns : IsSubSeq(EffectsOf(c), broadcasts)

\* a subscriber holds the effects of two ticks
C20_Witness ==
  \E c \in Conns :
    /\ Len(EffectsOf(c)) = 2
    /\ EffectsOf(c)[1].timestamp < EffectsOf(c)[2].timestamp
    /\ EffectsOf(c) = broadcasts

\* C21: the intensity of every effect the ladder decides lies in [0,1].
C21_IntensityInUnit ==
  \A i \in DOMAIN ladderOut : \A j \in DOMAIN ladderOut[i] :
    LET x == intensity(ladderOut[i][j], LadderRatio, LadderDensity) IN
    0 <= x.num /\ x.num <= x.den

\* C22: the ratio_state a tick computes has every value in [0,1].
C22_RatioInUnit ==
  LET A == active_users(user_data, now) IN
  TickDue /\ A # {} =>
    \A key \in StateKeys :
      LET x == ratio_state(user_data, A)[key] IN
      0 <= x.num /\ x.num <= x.den

\* C23: the time by which a window is judged is the server's clock at the
\* receipt of its newest sample, whatever timestamp the client wrote in the
\* frame.
C23_ServerClockOnly ==
  \A u \in Users :
    user_data[u] # << >> => Last(user_data[u]).timestamp = last_arrival[u]

\* C24 as stated: reactions_log has as many rows as reaction frames were
\* processed.
C24_RowsEqualFrames == reactions_log = frames

\* C24 amended: reactions_log has one row for every reaction frame processed
\* whose log_reaction call did not raise.
C24_OneRowUnlessWriteFailed == reactions_log + reaction_log_errors = frames

\* three frames were processed; the write of one raised, two have their rows,
\* and all three samples are in the window
C24_Witness ==
  /\ frames = 3
  /\ reaction_log_errors = 1
  /\ reactions_log = 2
  /\ \E u \in Users : Len(user_data[u]) = 3

\* the connections on which ensure_user_exists was called with id u
EnsuredOn(u) == {c \in Conns : conn[c].user_id = u}

\* C25: however many connections called ensure_user_exists with an id, the
\* users table has exactly one row with that id, and no row with an id it
\* was never called with.
C25_OneUsersRow ==
  \A u \in Users : users[u] = IF EnsuredOn(u) = {} THEN 0 ELSE 1

\* two connections called it with the same id
C25_Witness ==
  \E u \in Users : Cardinality(EnsuredOn(u)) = 2 /\ users[u] = 1

\* a host has picked its video and sent video_url_selected
HostHasSelected ==
  \E h \in Conns : conn[h].isHost /\ conn[h].group = "experiment"
                   /\ client[h].videoId # ""

\* C26: once the host has sent video_url_selected, every registered
\* participant on the waiting screen has been handed the event, so that it
\* can go on to viewing.
C26_WaitingParticipantsServed ==
  HostHasSelected =>
    \A b \in Conns :
      (/\ conn[b].status = "open"
       /\ conn[b].user_id # None
       /\ Participant(b)
       /\ client[b].currentScreen = "waiting")
        => UrlFrames(b) # << >>

Enters(c, st) == client'[c].playerState = st /\ client[c].playerState # st

\* the number of session_create frames tab c has sent
Creates(sent) == Cardinality({i \in DOMAIN sent : sent[i] = "session_create"})

C29_HandshakeFirst ==
  \A i \in Hooks, s \in Sockets :
    LET out == hook[i].ws[s].out IN
    /\ out # << >> => out[1] = [kind |-> "handshake", userId |-> StoredUserId]
    /\ \A n \in DOMAIN out : n > 1 => out[n].kind # "handshake"

\* C30: every reaction frame carries exactly the events detected since the
\* frame before it, so that each event is counted in the next frame sent
\* and in no other.
C30_EventsOfLastSecond ==
  \A i \in DOMAIN viewer.sent : viewer.sent[i].events = viewer.sent[i].fresh

\* C31: isConcentrating is reported only when both brows are down and the
\* head is still: once the head history is full, the positions it held when
\* the state was detected (all but that call's own) are still.
C31_ConcentratingNeedsStillHead ==
  det.isConcentrating =>
    /\ det.browsDown
    /\ Len(det.headYHistory) = HISTORY_MAX =>
         isStill(SubSeq(det.headYHistory, 1, HISTORY_MAX - 1))

\* C35: a detection call with a face that finds the nod detector down leaves
\* it neutral when the head moved up beyond the threshold, and in any case
\* when the call comes more than TIMEOUT_MS after the detector went down.
C35_DownReturnsToNeutral ==
  [][ ( /\ det.nodState = "down"
        /\ det'.now # det.now
        /\ det'.face
        /\ \/ det'.now - det.downStateStartTime > TIMEOUT_MS
           \/ det'.moved = "up" )
      => det'.nodState = "neutral" ]_vars

\* the detector went down, no upward movement came, and a call made more
\* than 1500 ms later put it back to neutral
C35_Witness ==
  /\ det.nodState = "neutral"
  /\ det.log = "timeout"
  /\ det.moved # "up"
  /\ det.now - det.downStateStartTime > TIMEOUT_MS

\* C32: what a frame draws is an effect received less than its durationMs
\* before the frame; a frame that finds the duration over ends the effect
\* and draws nothing, and so does every frame until another effect arrives.
C32_DrawnWithinDuration ==
  /\ renderer.drawn # EmptyCanvas =>
       renderer.drawn.at - renderer.drawn.receivedAt < renderer.drawn.effect.durationMs
  /\ renderer.currentEffectRef = NoEffect => renderer.drawn = EmptyCanvas
  /\ renderer.log = "ended" => renderer.drawn = EmptyCanvas

\* an effect was drawn by a frame, and a frame 2 s or more after it was
\* received has ended it and left the canvas empty
C32_Witness ==
  /\ renderer.log = "ended"
  /\ renderer.wasDrawn
  /\ renderer.drawn = EmptyCanvas
  /\ renderer.currentEffectRef = NoEffect
  /\ renderer.now - renderer.receivedAt >= durationMs

\* C33: the onclose of a socket sets a reconnect timer of RECONNECT_DELAY ms
\* and counts an attempt while fewer than MAX_RECONNECT_ATTEMPTS attempts
\* were made since the last open; after that it sets no timer and reports an
\* error.  A timer calls connect only when its delay is over, and an open
\* puts the count back to 0.
C33_ReconnectBounded ==
  [][ \A i \in Hooks, s \in Sockets :
        LET h == hook[i]
            h2 == hook'[i]
        IN
        /\ h2.reconnectAttempts <= MAX_RECONNECT_ATTEMPTS
        /\ (h.ws[s].readyState # "closed" /\ h2.ws[s].readyState = "closed") =>
             IF h.reconnectAttempts < MAX_RECONNECT_ATTEMPTS
             THEN /\ h2.reconnectAttempts = h.reconnectAttempts + 1
                  /\ h2.ws[s].timer = RECONNECT_DELAY
                  /\ h2.error = h.error
             ELSE /\ h2.reconnectAttempts = h.reconnectAttempts
                  /\ h2.ws[s].timer = NoTimer
                  /\ h2.error
        /\ (h.ws[s].readyState = "connecting" /\ h2.ws[s].readyState = "open") =>
             h2.reconnectAttempts = 0
        /\ (h.ws[s].timer # NoTimer /\ h2.ws[s].timer = NoTimer /\ h2.cleaned = h.cleaned) =>
             /\ h.ws[s].timer = 0
             /\ h2.wsRef # None /\ h2.ws[h2.wsRef].readyState = "connecting" ]_vars

\* a hook whose five reconnects in a row have failed: no socket, no timer,
\* the error reported
C33_Witness ==
  \E i \in Hooks :
    /\ hook[i].reconnectAttempts = MAX_RECONNECT_ATTEMPTS
    /\ hook[i].error
    /\ \A s \in Sockets : /\ hook[i].ws[s].readyState \in {"none", "closed"}
                          /\ hook[i].ws[s].timer = NoTimer

\* C34: the event counters never go longer than 1000 ms without a reset.
C34_ResetEverySecond == viewer.sinceReset <= RESET_INTERVAL_MS

\* C36: when the endpoint of a connection c ends after a disconnect while
\* another open connection b is the one registered for c's user_id, b is
\* still registered for that user_id afterwards.
C36_DisplacedCloseKeepsNewer ==
  [][ \A c \in Conns, b \in Conns :
        ( /\ b # c
          /\ conn[c].status = "broken"
          /\ conn'[c].status = "closed"
          /\ conn[c].user_id # None
          /\ conn[b].status = "open"
          /\ Has(active_connections, conn[c].user_id)
          /\ Lookup(active_connections, conn[c].user_id) = b )
        => /\ Has(active_connections', conn[c].user_id)
           /\ Lookup(active_connections', conn[c].user_id) = b ]_vars

\* C37: no two sockets of one tab are open at the same time after handshakes
\* with the same userId.
C37_OneSocketPerUserId ==
  \A i \in Hooks, j \in Hooks, s \in Sockets, t \in Sockets :
    ( /\ << i, s >> # << j, t >>
      /\ hook[i].ws[s].readyState = "open"
      /\ hook[j].ws[t].readyState = "open"
      /\ hook[i].ws[s].out # << >>
      /\ hook[j].ws[t].out # << >> )
    => \/ hook[i].ws[s].out[1].userId # hook[j].ws[t].out[1].userId
       \/ hook[i].ws[s].out[1].userId = ""

\* C38: no socket is opened by a connect callback whose effect has been
\* cleaned up.
C38_NoSocketAfterCleanup ==
  \A i \in Hooks, s \in Sockets : ~hook[i].ws[s].late

====
